---- MODULE Spec2Model ----
(***************************************************************************)
(* SafeArchive: the encrypted-archive core of cli.py (password based       *)
(* encryption with two backends, dispatcher, CLI backup and restore) and   *)
(* of Scripts/api_helpers.py (archive builder, backup store, restore).     *)
(*                                                                         *)
(* Bytes are naturals 0..255 and byte strings are sequences of them.       *)
(* Text (passwords, labels, file names) is a sequence of code points or of *)
(* one-character strings.  A Python call that may raise returns a record   *)
(* [ok, val, err].  The library primitives are modelled by their           *)
(* documented behaviour: PBKDF2-HMAC by the HMAC key it is a function of,  *)
(* Fernet as an authenticated token bound to its key, AES-CBC as a keyed   *)
(* bijection whose inverse under another key yields other bytes.           *)
(***************************************************************************)
EXTENDS Integers, Sequences, FiniteSets, TLC

\* ------------------------------------------------------------------ bounds
MaxLen == 17
NSalts == 2
NThreads == 2
MaxOps == 3
MaxTime == 1
MaxCliOps == 2
MaxPaths == 2
MaxLabel == 3
MaxName == 5

\* ------------------------------------------------------- program constants
AES_BLOCK == 16
SALT_LEN == 16
KDF_ITERATIONS == 390000
KDF_LENGTH == 32
HMAC_BLOCK == 64
FERNET_OVERHEAD == 57

\* ---------------------------------------------------------------- results
NoVal == <<>>
Ok(v) == [ok |-> TRUE, val |-> v, err |-> "none"]
Err(e) == [ok |-> FALSE, val |-> NoVal, err |-> e]

\* ------------------------------------------------------------ input sets
Salts == 1..NSalts
\* data_bytes of every length 0..MaxLen; two fillings, one of which ends
\* short strings with bytes that look like padding
Pattern(n, s) == [i \in 1..n |-> (s + i) % 256]
Datas == { Pattern(n, s) : n \in 0..MaxLen, s \in {0, 250} }
\* passwords as code points: "", "a", "a\x00", "b", U+20AC, the lone
\* surrogate U+DC80
Passwords == { <<>>, <<97>>, <<97, 0>>, <<98>>, <<8364>>, <<56448>> }
\* what AES-CBC decryption under another key adds to each plaintext byte
Shifts == {1, 15, 128, 255}

\* -------------------------------------------------------------- encodings
RECURSIVE Concat(_)
Concat(ss) == IF ss = <<>> THEN <<>> ELSE Head(ss) \o Concat(Tail(ss))

\* str.encode(): UTF-8; a surrogate code point raises UnicodeEncodeError
Utf8Char(c) ==
    IF c < 128 THEN <<c>>
    ELSE IF c < 2048 THEN <<192 + (c \div 64), 128 + (c % 64)>>
    ELSE <<224 + (c \div 4096), 128 + ((c \div 64) % 64), 128 + (c % 64)>>
IsSurrogate(c) == c >= 55296 /\ c <= 57343
Utf8(p) ==
    IF \E i \in 1..Len(p) : IsSurrogate(p[i])
    THEN Err("UnicodeEncodeError")
    ELSE Ok(Concat([i \in 1..Len(p) |-> Utf8Char(p[i])]))

\* Crypto.Util.py3compat.tobytes(str): latin-1
Latin1(p) ==
    IF \E i \in 1..Len(p) : p[i] > 255
    THEN Err("UnicodeEncodeError")
    ELSE Ok(p)

\* ---------------------------------------------------------- key derivation
\* HMAC pads a key shorter than its block with zero bytes and hashes a
\* longer one first: the canonical form of the zero-padded key is the key
\* without its trailing zero bytes.
RECURSIVE StripZeros(_)
StripZeros(b) ==
    IF b # <<>> /\ b[Len(b)] = 0 THEN StripZeros(SubSeq(b, 1, Len(b) - 1)) ELSE b
HmacKey(b) ==
    IF Len(b) > HMAC_BLOCK THEN [hashed |-> TRUE, k |-> b]
    ELSE [hashed |-> FALSE, k |-> StripZeros(b)]
\* PBKDF2: a function of the HMAC key, the salt, the hash, the iteration
\* count and the output length, and of nothing else
Pbkdf2(b, salt, hash, iterations, length) ==
    [hk |-> HmacKey(b), salt |-> salt, hash |-> hash, it |-> iterations, len |-> length]

\* ---------------------------------------------------------------- lengths
CeilDiv(a, b) == (a + b - 1) \div b
\* base64.urlsafe_b64encode: 4 characters per 3 bytes, padded
B64Len(n) == 4 * CeilDiv(n, 3)
\* a Fernet token: base64 of version(1) + time(8) + iv(16) + AES-CBC of the
\* PKCS7-padded data + HMAC(32)
FernetLen(n) == B64Len(FERNET_OVERHEAD + AES_BLOCK * ((n \div AES_BLOCK) + 1))
\* len(enc_bytes) of an envelope
BLen(env) ==
    IF env.fmt = "token" THEN SALT_LEN + FernetLen(Len(env.pt))
    ELSE SALT_LEN + AES_BLOCK + Len(env.pt)

\* ------------------------------------------------------------- Backend A
encrypt_with_cryptography(data_bytes, password, salt) ==
    LET pw == Utf8(password) IN
    IF ~pw.ok THEN Err(pw.err)
    ELSE LET key == [b64 |-> Pbkdf2(pw.val, salt, "SHA256", KDF_ITERATIONS, KDF_LENGTH)] IN
         Ok([fmt |-> "token", salt |-> salt, key |-> key, iv |-> 0, pt |-> data_bytes])

\* the token returned without verifying it under the derived key
decrypt_with_cryptography_unverified(enc_bytes, password) ==
    IF enc_bytes.fmt = "token" THEN Ok(enc_bytes.pt) ELSE Err("InvalidToken")

decrypt_with_cryptography(enc_bytes, password) ==
    LET pw == Utf8(password) IN
    IF ~pw.ok THEN Err(pw.err)
    ELSE LET key == [b64 |-> Pbkdf2(pw.val, enc_bytes.salt, "SHA256", KDF_ITERATIONS, KDF_LENGTH)] IN
         IF enc_bytes.fmt = "token" /\ enc_bytes.key = key
         THEN Ok(enc_bytes.pt)
         ELSE Err("InvalidToken")

\* ------------------------------------------------------------- Backend B
\* no pad block for data already block aligned
PadLen_aligned(n) == (AES_BLOCK - (n % AES_BLOCK)) % AES_BLOCK
PadLen(n) == AES_BLOCK - (n % AES_BLOCK)

encrypt_with_pycrypto(data_bytes, password, salt, iv) ==
    LET pw == Latin1(password) IN
    IF ~pw.ok THEN Err(pw.err)
    ELSE LET key == Pbkdf2(pw.val, salt, "SHA1", KDF_ITERATIONS, KDF_LENGTH)
             pad_len == PadLen(Len(data_bytes))
             data_padded == data_bytes \o [i \in 1..pad_len |-> pad_len]
         IN Ok([fmt |-> "block", salt |-> salt, key |-> key, iv |-> iv, pt |-> data_padded])

\* cipher.decrypt(ciphertext): the plaintext under the key that encrypted
\* it, other bytes (shifted by d) under any other key
CbcDecrypt(enc_bytes, key, n, d) ==
    IF enc_bytes.fmt = "block" /\ enc_bytes.key = key
    THEN enc_bytes.pt
    ELSE IF enc_bytes.fmt = "block"
         THEN [i \in 1..n |-> (enc_bytes.pt[i] + d) % 256]
         ELSE [i \in 1..n |-> d]

\* a whole block stripped whatever the pad length
StripPad_block(padded, pad_len) == SubSeq(padded, 1, Len(padded) - AES_BLOCK)
StripPad(padded, pad_len) == SubSeq(padded, 1, Len(padded) - pad_len)

decrypt_with_pycrypto(enc_bytes, password, d) ==
    LET pw == Latin1(password)
        n == BLen(enc_bytes) - (SALT_LEN + AES_BLOCK)
    IN
    IF ~pw.ok THEN Err(pw.err)
    ELSE IF n < 0 THEN Err("ValueError: incorrect IV length")
    ELSE IF n % AES_BLOCK # 0 THEN Err("ValueError: not a multiple of the block size")
    ELSE IF n = 0 THEN Err("IndexError")
    ELSE LET key == Pbkdf2(pw.val, enc_bytes.salt, "SHA1", KDF_ITERATIONS, KDF_LENGTH)
             padded == CbcDecrypt(enc_bytes, key, n, d)
             pad_len == padded[Len(padded)]
         IN IF pad_len < 1 \/ pad_len > 16
            THEN Err("ValueError: bad padding")
            ELSE Ok(StripPad(padded, pad_len))

\* ------------------------------------------------------------ dispatcher
\* Backend B tried before Backend A
try_decrypt_b_first(enc_bytes, password, d, cryptography_available, pycrypto_available) ==
    LET a == decrypt_with_cryptography(enc_bytes, password)
        b == decrypt_with_pycrypto(enc_bytes, password, d)
    IN
    IF pycrypto_available /\ b.ok
    THEN [res |-> b, tried |-> <<"B">>]
    ELSE LET t1 == IF pycrypto_available THEN <<"B">> ELSE <<>> IN
         IF cryptography_available /\ a.ok
         THEN [res |-> a, tried |-> t1 \o <<"A">>]
         ELSE [res |-> Err("ValueError: decryption failed"),
               tried |-> t1 \o (IF cryptography_available THEN <<"A">> ELSE <<>>)]

\* try_decrypt: the backends tried, in order, and the outcome
try_decrypt(enc_bytes, password, d, cryptography_available, pycrypto_available) ==
    LET a == decrypt_with_cryptography(enc_bytes, password)
        b == decrypt_with_pycrypto(enc_bytes, password, d)
    IN
    IF cryptography_available /\ a.ok
    THEN [res |-> a, tried |-> <<"A">>]
    ELSE LET t1 == IF cryptography_available THEN <<"A">> ELSE <<>> IN
         IF pycrypto_available /\ b.ok
         THEN [res |-> b, tried |-> t1 \o <<"B">>]
         ELSE [res |-> Err("ValueError: decryption failed"),
               tried |-> t1 \o (IF pycrypto_available THEN <<"B">> ELSE <<>>)]

\* ------------------------------------------------------------------- text
\* Text is a sequence of one-character strings.
Str_zip == <<".", "z", "i", "p">>
Str_enc_zip == <<".", "e", "n", "c">> \o Str_zip
Str_zip_enc == Str_zip \o <<".", "e", "n", "c">>
Str_backup == <<"b", "a", "c", "k", "u", "p">>
\* str.isalnum() on the characters the model uses: letters and digits
IsAlnum(c) == c \in {"a", "b", "c", "d", "e", "f", "g", "h", "i", "j", "k", "l", "m",
                     "n", "o", "p", "q", "r", "s", "t", "u", "v", "w", "x", "y", "z",
                     "0", "1", "2", "3", "4", "5", "6", "7", "8", "9"}
EndsWith(s, suffix) ==
    Len(s) >= Len(suffix) /\ SubSeq(s, Len(s) - Len(suffix) + 1, Len(s)) = suffix
\* the blank kept as well
IsSafeChar_blank(c) == IsAlnum(c) \/ c \in {"-", "_", " "}
\* c.isalnum() or c in ("-", "_")
IsSafeChar(c) == IsAlnum(c) \/ c \in {"-", "_"}
\* "".join(c for c in s if ...)
RECURSIVE KeepSafe(_)
KeepSafe(s) ==
    IF s = <<>> THEN <<>>
    ELSE (IF IsSafeChar(Head(s)) THEN <<Head(s)>> ELSE <<>>) \o KeepSafe(Tail(s))
\* str.strip(): leading and trailing whitespace removed
RECURSIVE Strip(_)
Strip(s) ==
    IF s # <<>> /\ Head(s) = " " THEN Strip(Tail(s))
    ELSE IF s # <<>> /\ s[Len(s)] = " " THEN Strip(SubSeq(s, 1, Len(s) - 1))
    ELSE s
\* index of the last "/" of a path, 0 when it has none
RECURSIVE LastSlash(_)
LastSlash(s) ==
    IF s = <<>> THEN 0
    ELSE IF s[Len(s)] = "/" THEN Len(s)
    ELSE LastSlash(SubSeq(s, 1, Len(s) - 1))
\* os.path.basename, os.path.dirname, os.path.join and os.path.relpath on
\* the absolute, normalised paths the model uses
Basename(s) == SubSeq(s, LastSlash(s) + 1, Len(s))
Dirname(s) == IF LastSlash(s) <= 1 THEN SubSeq(s, 1, LastSlash(s))
              ELSE SubSeq(s, 1, LastSlash(s) - 1)
Join(a, b) == IF a # <<>> /\ a[Len(a)] = "/" THEN a \o b ELSE a \o <<"/">> \o b
Relpath(s, start) == SubSeq(s, Len(start) + 2, Len(s))

\* the name component of a stored backup (save_and_encrypt_backup)
safe_name_of(backup_name) ==
    LET kept == Strip(KeepSafe(backup_name))
    IN IF kept = <<>> THEN Str_backup ELSE kept

\* ------------------------------------------------------------- file content
\* What a file holds: nothing yet (opened for writing), raw bytes, a zip
\* archive (entries, each plain or AES encrypted under a key), an envelope
\* written by the CLI, or the mix left by two writers of one file.
NoKey == [hk |-> [hashed |-> FALSE, k |-> <<>>], salt |-> 0]
NoEnvelope == [fmt |-> "none", salt |-> 0, key |-> NoVal, iv |-> 0, pt |-> <<>>]
Empty == [t |-> "empty"]
Corrupt == [t |-> "corrupt"]
Raw(bytes) == [t |-> "raw", bytes |-> bytes]
Zip(entries) == [t |-> "zip", entries |-> entries]
Envelope(env) == [t |-> "env", env |-> env]
Entry(name, data, key) == [name |-> name, data |-> data, aes |-> key]
\* the key pyzipper's WZ_AES derives for an entry (PBKDF2-HMAC of the
\* password and a per-entry salt)
AesZipKey(pwd, salt) == [hk |-> HmacKey(pwd), salt |-> salt]

\* ---------------------------------------------------------- source paths
\* The files the archive builder is pointed at: two regular files, a
\* directory with a file and a sub-directory holding a file, a path that
\* does not exist, and a regular file that cannot be read.
P_a == <<"/", "u", "/", "a">>
P_b == <<"/", "v", "/", "a">>
P_d == <<"/", "u", "/", "d">>
P_m == <<"/", "u", "/", "m">>
P_u == <<"/", "u", "/", "k">>
\* the directory again, written with a trailing separator
P_ds == P_d \o <<"/">>
IsFile(p) == p \in {P_a, P_b, P_u}
IsDir(p) == p \in {P_d, P_ds}
Readable(p) == p # P_u
\* os.walk(p) of the directory: (root, dirs, files), top down
WalkOf(p) ==
    IF IsDir(p)
    THEN << [root |-> p, dirs |-> << <<"s">> >>, files |-> << <<"f">> >>],
            [root |-> Join(p, <<"s">>), dirs |-> <<>>, files |-> << <<"g">> >>] >>
    ELSE <<>>
\* the bytes of a source file, told apart by its path
FileData(p) == Raw(<<Len(p), IF p[2] = "u" THEN 117 ELSE 118>>)
\* a directory entry has no data
DirData == Raw(<<>>)

\* the entries zipObj.write adds for one root of os.walk: directories first
WalkEntries(item, w) ==
    [i \in 1..Len(w.dirs) |->
        Entry(Relpath(Join(w.root, w.dirs[i]), Dirname(item)) \o <<"/">>, DirData, NoKey)]
    \o [i \in 1..Len(w.files) |->
        Entry(Relpath(Join(w.root, w.files[i]), Dirname(item)), FileData(Join(w.root, w.files[i])), NoKey)]
ItemEntries(item) ==
    IF IsFile(item) THEN << Entry(Basename(item), FileData(item), NoKey) >>
    ELSE IF IsDir(item)
         THEN Concat([k \in 1..Len(WalkOf(item)) |-> WalkEntries(item, WalkOf(item)[k])])
         ELSE <<>>
\* the first listed path whose reading raises, 0 when there is none
FirstUnreadable(source_paths) ==
    IF \E i \in 1..Len(source_paths) : IsFile(source_paths[i]) /\ ~Readable(source_paths[i])
    THEN CHOOSE i \in 1..Len(source_paths) :
            /\ IsFile(source_paths[i]) /\ ~Readable(source_paths[i])
            /\ \A k \in 1..(i - 1) : ~(IsFile(source_paths[k]) /\ ~Readable(source_paths[k]))
    ELSE 0
\* zip_paths_to_file(source_paths, out, password=None): the archive left at
\* out and whether the call raised; the with-block closes the archive with
\* the entries written before the error
zip_paths_to_file(source_paths) ==
    LET bad == FirstUnreadable(source_paths)
        upto == IF bad = 0 THEN Len(source_paths) ELSE bad - 1
        entries == Concat([i \in 1..upto |-> ItemEntries(source_paths[i])])
    IN [ok |-> bad = 0, val |-> Zip(entries), err |-> IF bad = 0 THEN "none" ELSE "PermissionError"]

\* ------------------------------------------------------- archive builder
\* A password argument: None, bytes, or a str (which setpassword refuses).
NoPassword == [kind |-> "none", v |-> <<>>]
BytesPw(v) == [kind |-> "bytes", v |-> v]
StrPw(v) == [kind |-> "str", v |-> v]
\* `if password:`
Truthy(password) == password.kind # "none" /\ password.v # <<>>
\* zf.setpassword(password) inside try/except pass: the key the archive
\* holds afterwards, <<>> (None) when the call raised
SetPassword(password) ==
    IF password.kind = "bytes" /\ password.v # <<>> THEN password.v ELSE <<>>
\* an entry is a directory entry when its name ends in "/"
IsDirEntry(e) == e.name # <<>> /\ e.name[Len(e.name)] = "/"
\* entries written with no key when the archive holds none
EncrypterFor_optional(encryption, pwd, salt) ==
    IF encryption /\ pwd # <<>> THEN Ok(AesZipKey(pwd, salt)) ELSE Ok(NoKey)
\* the encrypter an archive opened with the given encryption makes for a file
\* entry: none without encryption, the AES key of its password with WZ_AES,
\* and an error with WZ_AES and no password set
EncrypterFor(encryption, pwd, salt) ==
    IF ~encryption THEN Ok(NoKey)
    ELSE IF pwd = <<>> THEN Err("RuntimeError: WZ_AES encryption requires a password.")
    ELSE Ok(AesZipKey(pwd, salt))
\* what the loop of zip_paths_to_file writes, in order: each entry with the
\* path it is read from and whether reading it raises
Writes(source_paths) ==
    Concat([i \in 1..Len(source_paths) |->
        [j \in 1..Len(ItemEntries(source_paths[i])) |->
            [e |-> ItemEntries(source_paths[i])[j],
             item |-> i,
             unreadable |-> IsFile(source_paths[i]) /\ ~Readable(source_paths[i])]]])
\* zip_paths_to_file(source_paths, out, password): the archive left at out,
\* closed by the with-block with the entries written before any error
ZipPathsToFile(source_paths, password, salt) ==
    LET use_encryption == Truthy(password)
        pwd == IF use_encryption THEN SetPassword(password) ELSE <<>>
        w == Writes(source_paths)
        enc(k) == IF IsDirEntry(w[k].e) THEN Ok(NoKey)
                  ELSE EncrypterFor(use_encryption, pwd, salt)
        raises(k) == w[k].unreadable \/ ~enc(k).ok
        bad == IF \E k \in 1..Len(w) : raises(k)
               THEN CHOOSE k \in 1..Len(w) : raises(k) /\ \A i \in 1..(k - 1) : ~raises(i)
               ELSE 0
        upto == IF bad = 0 THEN Len(w) ELSE bad - 1
        entries == [k \in 1..upto |-> Entry(w[k].e.name, w[k].e.data, enc(k).val)]
    IN [ok |-> bad = 0, val |-> Zip(entries),
        err |-> IF bad = 0 THEN "none"
                ELSE IF w[bad].unreadable THEN "PermissionError" ELSE enc(bad).err]
\* save_and_encrypt_backup, lines 146-155: the wrapper archive written around
\* the bytes of the temporary zip
WrapEntry(safe_name, data, password, salt) ==
    LET k == EncrypterFor(TRUE, SetPassword(password), salt) IN
    IF k.ok THEN [ok |-> TRUE, val |-> Zip(<< Entry(safe_name \o Str_zip, data, k.val) >>), err |-> "none"]
    ELSE [ok |-> FALSE, val |-> Zip(<<>>), err |-> k.err]
\* save_and_encrypt_backup taken as one step: what it returns or raises and
\* the file it leaves in the store
SaveResult(source_paths, backup_name, password, salt) ==
    LET safe_name == safe_name_of(backup_name)
        z == zip_paths_to_file(source_paths)
        w == WrapEntry(safe_name, z.val, password, salt)
    IN IF ~z.ok THEN [ok |-> FALSE, name |-> <<>>, blob |-> Empty, err |-> z.err]
       ELSE IF Truthy(password)
            THEN [ok |-> w.ok, name |-> safe_name \o Str_enc_zip, blob |-> w.val, err |-> w.err]
            ELSE [ok |-> TRUE, name |-> safe_name \o Str_zip, blob |-> z.val, err |-> "none"]

\* ------------------------------------------------------------------ state
VARIABLES
    CRYPTOGRAPHY_AVAILABLE,   \* cli.py: set once at import
    PYCRYPTO_AVAILABLE,
    cr,                       \* the pure functions applied to drawn inputs
    fs,                       \* the file system: path -> [blob, open]
    th,                       \* per thread: the call it is in and its locals
    nops,                     \* calls started so far
    last,                     \* the call that returned or raised last
    now,                      \* the clock, in seconds
    bd,                       \* the archive builder applied to drawn inputs
    writer                    \* per stored path: the save that returned it last,
                              \* and how many saves returned it

vars == <<CRYPTOGRAPHY_AVAILABLE, PYCRYPTO_AVAILABLE, cr, fs, th, nops, last, now, bd, writer>>
crypto_vars == <<CRYPTOGRAPHY_AVAILABLE, PYCRYPTO_AVAILABLE, cr, now, bd>>
store_vars == <<fs, th, nops, last, writer>>

NoRes == [ok |-> FALSE, val |-> NoVal, err |-> "not run"]
NoCrypto == [data |-> <<>>, pw |-> <<>>, env |-> NoEnvelope, by |-> "none",
             dpw |-> <<>>, d |-> 0, dec |-> NoRes, via |-> "none", tried |-> <<>>]

NoBuild == [op |-> "none", sources |-> <<>>, label |-> <<>>, pw |-> NoPassword,
            salt |-> 0, res |-> NoRes]
Threads == 1..NThreads
Idle == [pc |-> "idle", kind |-> "none", label |-> <<>>, sources |-> <<>>,
         pw |-> <<>>, safe |-> <<>>, zip_path |-> <<>>, stored |-> <<>>,
         data |-> Empty, out |-> <<>>,
         enc |-> NoEnvelope, method |-> "none", tried |-> <<>>]
NoCall == [op |-> "none", path |-> <<>>, pw |-> <<>>, ok |-> FALSE,
           err |-> "none", out |-> <<>>,
           src |-> <<>>, method |-> "none", tried |-> <<>>, warned |-> FALSE]
InitStore ==
    /\ fs = << >>
    /\ th = [t \in Threads |-> Idle]
    /\ nops = 0
    /\ last = NoCall
    /\ now = 0
    /\ bd = NoBuild
    /\ writer = << >>

InitCrypto ==
    /\ CRYPTOGRAPHY_AVAILABLE \in BOOLEAN
    /\ PYCRYPTO_AVAILABLE \in BOOLEAN
    /\ \E c \in Datas, p \in Passwords :
          cr = [NoCrypto EXCEPT !.data = c, !.pw = p]
    /\ InitStore

\* encrypt_with_cryptography(C, P) with a fresh salt.  The envelope may have
\* been made by another run of the program than the one that decrypts it,
\* so the availability flags, which are those of the decrypting run, do not
\* guard the two encryptions.
CryptoEncryptA ==
    /\ cr.by = "none"
    /\ \E salt \in Salts :
          LET r == encrypt_with_cryptography(cr.data, cr.pw, salt) IN
          /\ r.ok
          /\ cr' = [cr EXCEPT !.env = r.val, !.by = "A"]
    /\ UNCHANGED <<CRYPTOGRAPHY_AVAILABLE, PYCRYPTO_AVAILABLE, now, bd, store_vars>>

\* encrypt_with_pycrypto(C, P) with a fresh salt and iv
CryptoEncryptB ==
    /\ cr.by = "none"
    /\ \E salt \in Salts, iv \in Salts :
          LET r == encrypt_with_pycrypto(cr.data, cr.pw, salt, iv) IN
          /\ r.ok
          /\ cr' = [cr EXCEPT !.env = r.val, !.by = "B"]
    /\ UNCHANGED <<CRYPTOGRAPHY_AVAILABLE, PYCRYPTO_AVAILABLE, now, bd, store_vars>>

\* the file of a Backend B envelope cut short after the salt, the iv and
\* some whole blocks of the ciphertext (a write that was interrupted): the
\* blocks left decrypt to the first blocks of the padded data
CryptoTruncate ==
    /\ cr.by = "B" /\ cr.via = "none"
    /\ \E k \in 0..((Len(cr.env.pt) \div AES_BLOCK) - 1) :
          cr' = [cr EXCEPT !.env.pt = SubSeq(cr.env.pt, 1, k * AES_BLOCK), !.by = "Bcut"]
    /\ UNCHANGED <<CRYPTOGRAPHY_AVAILABLE, PYCRYPTO_AVAILABLE, now, bd, store_vars>>

CryptoDecryptA ==
    /\ CRYPTOGRAPHY_AVAILABLE
    /\ cr.by # "none" /\ cr.via = "none"
    /\ \E p \in Passwords :
          cr' = [cr EXCEPT !.dpw = p, !.via = "A", !.tried = <<"A">>,
                           !.dec = decrypt_with_cryptography(cr.env, p)]
    /\ UNCHANGED <<CRYPTOGRAPHY_AVAILABLE, PYCRYPTO_AVAILABLE, now, bd, store_vars>>

CryptoDecryptB ==
    /\ PYCRYPTO_AVAILABLE
    /\ cr.by # "none" /\ cr.via = "none"
    /\ \E p \in Passwords, d \in Shifts :
          cr' = [cr EXCEPT !.dpw = p, !.d = d, !.via = "B", !.tried = <<"B">>,
                           !.dec = decrypt_with_pycrypto(cr.env, p, d)]
    /\ UNCHANGED <<CRYPTOGRAPHY_AVAILABLE, PYCRYPTO_AVAILABLE, now, bd, store_vars>>

CryptoTryDecrypt ==
    /\ cr.by # "none" /\ cr.via = "none"
    /\ \E p \in Passwords, d \in Shifts :
          LET t == try_decrypt(cr.env, p, d, CRYPTOGRAPHY_AVAILABLE, PYCRYPTO_AVAILABLE) IN
          cr' = [cr EXCEPT !.dpw = p, !.d = d, !.via = "try", !.tried = t.tried, !.dec = t.res]
    /\ UNCHANGED <<CRYPTOGRAPHY_AVAILABLE, PYCRYPTO_AVAILABLE, now, bd, store_vars>>

NextCrypto ==
    \/ CryptoEncryptA
    \/ CryptoEncryptB
    \/ CryptoDecryptA
    \/ CryptoDecryptB
    \/ CryptoTryDecrypt
    \/ CryptoTruncate

SpecCrypto == InitCrypto /\ [][NextCrypto]_vars

\* ------------------------------------------------------------ file system
TMP_DIR == <<"/", "t">>                       \* tempfile.gettempdir()
BACKUP_STORE == Join(TMP_DIR, <<"s">>)        \* api_helpers.BACKUP_STORE
PID == <<"7">>                                \* os.getpid() of the server
Digit(k) == <<"0", "1", "2", "3", "4", "5", "6", "7", "8", "9">>[k + 1]
\* tmp_<safe_name>_<pid>.zip in the temporary directory
TmpZipPath(safe) == Join(TMP_DIR, <<"t", "m", "p", "_">> \o safe \o <<"_">> \o PID \o Str_zip)
\* the name NamedTemporaryFile(suffix=".zip") makes: one no file has
TmpOutPath(k) == Join(TMP_DIR, <<"o", Digit(k)>> \o Str_zip)
FreshTmpOut(f) == TmpOutPath(CHOOSE k \in 0..9 :
                                /\ TmpOutPath(k) \notin DOMAIN f
                                /\ \A i \in 0..(k - 1) : TmpOutPath(i) \in DOMAIN f)

\* A file is its content and the handles open on it for writing, each named
\* by its thread and by which of the thread's files it is ("z": the
\* temporary zip, "s": the stored archive).  A handle stays with its file when
\* the file is renamed and is lost with it when the file is removed.
File(blob, open) == [blob |-> blob, open |-> open]
\* open(path, "w"): the file is created, or truncated if it exists
OpenW(f, path, h) ==
    IF path \in DOMAIN f THEN [f EXCEPT ![path] = File(Empty, @.open \cup {h})]
    ELSE f @@ (path :> File(Empty, {h}))
\* the content written through handle h when it is closed: into the file the
\* handle is open on, whatever its name by then, and nowhere when that file
\* was removed.  Two handles writing one file from offset 0 leave the later
\* writer's content or a mix of both.
WriteTo(f, h, blob, mixed) ==
    [q \in DOMAIN f |->
        IF h \in f[q].open
        THEN File(IF f[q].blob = Empty \/ ~mixed THEN blob ELSE Corrupt, f[q].open \ {h})
        ELSE f[q]]
Remove(f, path) == [q \in DOMAIN f \ {path} |-> f[q]]
\* os.rename: dst is replaced atomically
Rename(f, src, dst) ==
    [q \in (DOMAIN f \ {src}) \cup {dst} |-> IF q = dst THEN f[src] ELSE f[q]]

\* ------------------------------------------------------------- API inputs
Labels == { <<"x">>, <<"/">> }
SourceLists == { <<P_a>>, <<P_d, P_m, P_b>>, <<P_a, P_u>> }
\* password bytes; <<>> is None (no password)
ApiPasswords == { <<>>, <<112>>, <<113>> }
StorePaths == { Join(BACKUP_STORE, safe_name_of(l) \o ext) :
                    l \in Labels, ext \in {Str_enc_zip, Str_zip} }

\* a call of thread t returns out, or raises; a call that raises leaves in
\* out the name of the output file it had created, if any
Return(t, path, out) ==
    /\ th' = [th EXCEPT ![t] = Idle]
    /\ last' = [op |-> th[t].kind, path |-> path, pw |-> th[t].pw,
                ok |-> TRUE, err |-> "none", out |-> out,
                src |-> th[t].sources, method |-> "none", tried |-> <<>>, warned |-> FALSE]
Raise(t, path, err) ==
    /\ th' = [th EXCEPT ![t] = Idle]
    /\ last' = [op |-> th[t].kind, path |-> path, pw |-> th[t].pw,
                ok |-> FALSE, err |-> err, out |-> th[t].out,
                src |-> th[t].sources, method |-> "none", tried |-> <<>>, warned |-> FALSE]

\* ------------------------------------------- save_and_encrypt_backup
\* lines 140-144: the names, and zip_paths_to_file opening the temporary zip
SaveStart(t) ==
    /\ th[t].pc = "idle" /\ nops < MaxOps
    /\ \E label \in Labels, sources \in SourceLists, pw \in ApiPasswords :
          LET safe == safe_name_of(label)
              zp == TmpZipPath(safe)
          IN /\ fs' = OpenW(fs, zp, <<t, "z">>)
             /\ th' = [th EXCEPT ![t] =
                    [Idle EXCEPT !.pc = "s_write_tmp", !.kind = "save",
                                 !.label = label, !.sources = sources, !.pw = pw,
                                 !.safe = safe, !.zip_path = zp]]
    /\ nops' = nops + 1
    /\ UNCHANGED <<last, writer, crypto_vars>>

\* line 144: zip_paths_to_file writes the entries and closes the archive
SaveWriteTmp(t) ==
    /\ th[t].pc = "s_write_tmp"
    /\ LET r == zip_paths_to_file(th[t].sources) IN
       /\ \E mixed \in BOOLEAN : fs' = WriteTo(fs, <<t, "z">>, r.val, mixed)
       /\ IF r.ok
          THEN /\ th' = [th EXCEPT ![t].pc = IF th[t].pw # <<>> THEN "s_open_store" ELSE "s_move"]
               /\ UNCHANGED last
          ELSE Raise(t, <<>>, r.err)
    /\ UNCHANGED <<nops, writer, crypto_vars>>

\* lines 147-148: the stored archive is opened for writing
SaveOpenStore(t) ==
    /\ th[t].pc = "s_open_store"
    /\ LET sp == Join(BACKUP_STORE, th[t].safe \o Str_enc_zip) IN
       /\ fs' = OpenW(fs, sp, <<t, "s">>)
       /\ th' = [th EXCEPT ![t].pc = "s_read_tmp", ![t].stored = sp]
    /\ UNCHANGED <<nops, last, writer, crypto_vars>>

\* lines 149-150: the temporary zip is read; when it is gone the open raises
\* and the with-block closes the stored archive, empty
SaveReadTmp(t) ==
    /\ th[t].pc = "s_read_tmp"
    /\ IF th[t].zip_path \in DOMAIN fs
       THEN /\ th' = [th EXCEPT ![t].pc = "s_write_store", ![t].data = fs[th[t].zip_path].blob]
            /\ UNCHANGED <<fs, last>>
       ELSE /\ \E mixed \in BOOLEAN :
                  fs' = WriteTo(fs, <<t, "s">>, Zip(<<>>), mixed)
            /\ Raise(t, th[t].stored, "FileNotFoundError")
    /\ UNCHANGED <<nops, writer, crypto_vars>>

\* lines 151-155: setpassword, writestr of the one entry, close
SaveWriteStore(t) ==
    /\ th[t].pc = "s_write_store"
    /\ \E salt \in Salts, mixed \in BOOLEAN :
          fs' = WriteTo(fs, <<t, "s">>,
                        Zip(<< Entry(th[t].safe \o Str_zip, th[t].data,
                                     AesZipKey(th[t].pw, salt)) >>), mixed)
    /\ th' = [th EXCEPT ![t].pc = "s_cleanup"]
    /\ UNCHANGED <<nops, last, writer, crypto_vars>>

\* lines 157-158: no password, the temporary zip is moved into the store
SaveMove(t) ==
    /\ th[t].pc = "s_move"
    /\ LET sp == Join(BACKUP_STORE, th[t].safe \o Str_zip) IN
       IF th[t].zip_path \in DOMAIN fs
       THEN /\ fs' = Rename(fs, th[t].zip_path, sp)
            /\ th' = [th EXCEPT ![t].pc = "s_cleanup", ![t].stored = sp]
            /\ UNCHANGED last
       ELSE /\ Raise(t, sp, "FileNotFoundError")
            /\ UNCHANGED fs
    /\ UNCHANGED <<nops, writer, crypto_vars>>

\* lines 160-167: the temporary zip is removed if it exists; stored_path is
\* returned
SaveCleanup(t) ==
    /\ th[t].pc = "s_cleanup"
    /\ fs' = IF th[t].zip_path \in DOMAIN fs THEN Remove(fs, th[t].zip_path) ELSE fs
    /\ Return(t, th[t].stored, <<>>)
    /\ writer' = [q \in DOMAIN writer \cup {th[t].stored} |->
                    IF q = th[t].stored
                    THEN [pw |-> th[t].pw, sources |-> th[t].sources,
                          count |-> IF q \in DOMAIN writer THEN writer[q].count + 1 ELSE 1]
                    ELSE writer[q]]
    /\ UNCHANGED <<nops, crypto_vars>>

\* ---------------------------------------------- decrypt_backup_to_zip
\* the first entry read without its key being checked
ReadFirstEntry_unchecked(blob, password) ==
    IF blob.t # "zip" THEN Err("BadZipFile")
    ELSE IF blob.entries = <<>> THEN Err("RuntimeError: encrypted archive empty")
    ELSE Ok(blob.entries[1].data)
\* zf.namelist() and zf.read(first) of the archive held by blob
ReadFirstEntry(blob, password) ==
    IF blob.t # "zip" THEN Err("BadZipFile")
    ELSE IF blob.entries = <<>> THEN Err("RuntimeError: encrypted archive empty")
    ELSE LET first == blob.entries[1] IN
         IF first.aes = NoKey THEN Ok(first.data)
         ELSE IF password = <<>> THEN Err("RuntimeError: password required")
         ELSE IF AesZipKey(password, first.aes.salt) # first.aes
              THEN Err("RuntimeError: Bad password")
              ELSE Ok(first.data)

\* every name ending in .zip taken for a plain zip
IsPlainName_any_zip(path) == EndsWith(path, Str_zip)
\* no name taken for a plain zip
IsPlainName_never(path) == FALSE
\* the file is plain zip (not .enc.zip)
IsPlainName(path) == EndsWith(path, Str_zip) /\ ~EndsWith(path, Str_enc_zip)

\* lines 175-179: the existence check and the temporary output file
RestoreStart(t) ==
    /\ th[t].pc = "idle" /\ nops < MaxOps
    /\ nops' = nops + 1
    /\ \E path \in StorePaths, pw \in ApiPasswords :
          IF path \notin DOMAIN fs
          THEN /\ th' = th
               /\ last' = [NoCall EXCEPT !.op = "restore", !.path = path, !.pw = pw,
                                          !.err = "FileNotFoundError"]
               /\ UNCHANGED fs
          ELSE LET out == FreshTmpOut(fs) IN
               /\ fs' = fs @@ (out :> File(Empty, {}))
               /\ th' = [th EXCEPT ![t] =
                          [Idle EXCEPT !.pc = "r_read", !.kind = "restore",
                                       !.pw = pw, !.stored = path, !.out = out]]
               /\ UNCHANGED last
    /\ UNCHANGED <<writer, crypto_vars>>

\* lines 181-200: a plain zip is copied; otherwise the first entry of the
\* archive is read with the password and written to the output file
RestoreRead(t) ==
    /\ th[t].pc = "r_read"
    /\ LET path == th[t].stored
           out == th[t].out
       IN IF path \notin DOMAIN fs
          THEN Raise(t, path, "FileNotFoundError") /\ UNCHANGED fs
          ELSE IF IsPlainName(path)
          THEN /\ fs' = [fs EXCEPT ![out].blob = fs[path].blob]
               /\ Return(t, path, out)
          ELSE LET r == ReadFirstEntry(fs[path].blob, th[t].pw) IN
               IF r.ok
               THEN /\ fs' = [fs EXCEPT ![out].blob = r.val]
                    /\ Return(t, path, out)
               ELSE Raise(t, path, r.err) /\ UNCHANGED fs
    /\ UNCHANGED <<nops, writer, crypto_vars>>

\* ------------------------------------------------------------ API service
InitApi ==
    /\ CRYPTOGRAPHY_AVAILABLE = TRUE
    /\ PYCRYPTO_AVAILABLE = TRUE
    /\ cr = NoCrypto
    /\ InitStore

Step(t) ==
    \/ SaveStart(t)
    \/ SaveWriteTmp(t)
    \/ SaveOpenStore(t)
    \/ SaveReadTmp(t)
    \/ SaveWriteStore(t)
    \/ SaveMove(t)
    \/ SaveCleanup(t)
    \/ RestoreStart(t)
    \/ RestoreRead(t)

\* requests served by concurrent threads of the server
Next == \E t \in Threads : Step(t)
Spec == InitApi /\ [][Next]_vars

\* one call at a time: every request is served by the same thread, which
\* starts a call only when the one before has returned or raised
NextSeq ==
    \/ SaveStart(1)
    \/ SaveWriteTmp(1)
    \/ SaveOpenStore(1)
    \/ SaveReadTmp(1)
    \/ SaveWriteStore(1)
    \/ SaveMove(1)
    \/ SaveCleanup(1)
    \/ RestoreStart(1)
    \/ RestoreRead(1)
SpecSeq == InitApi /\ [][NextSeq]_vars

\* ------------------------------------------------------- restore alone
\* What the store can hold when a restore is asked for: nothing; the archive
\* a completed save left, encrypted or plain; the empty wrapper left by a
\* save whose reading of the temporary zip raised; the file a save has
\* opened and not yet written; the mix two writers left.
StoredX(ext) == Join(BACKUP_STORE, safe_name_of(<<"x">>) \o ext)
SavedSources == { src \in SourceLists : zip_paths_to_file(src).ok }
StoreStates ==
    { << >> }
    \cup { StoredX(Str_enc_zip) :>
              File(Zip(<< Entry(safe_name_of(<<"x">>) \o Str_zip,
                                zip_paths_to_file(src).val, AesZipKey(pw, salt)) >>), {}) :
              src \in SavedSources, pw \in ApiPasswords \ { <<>> }, salt \in Salts }
    \cup { StoredX(Str_zip) :> File(zip_paths_to_file(src).val, {}) : src \in SavedSources }
    \cup { StoredX(Str_enc_zip) :> File(blob, {}) : blob \in { Zip(<<>>), Empty, Corrupt } }
InitRestore ==
    /\ CRYPTOGRAPHY_AVAILABLE = TRUE
    /\ PYCRYPTO_AVAILABLE = TRUE
    /\ cr = NoCrypto
    /\ fs \in StoreStates
    /\ th = [t \in Threads |-> Idle]
    /\ nops = 0
    /\ last = NoCall
    /\ now = 0
    /\ bd = NoBuild
    /\ writer = << >>
NextRestore ==
    \/ RestoreStart(1)
    \/ RestoreRead(1)
SpecRestore == InitRestore /\ [][NextRestore]_vars

\* ------------------------------------------------- archive builder alone
\* every list of at most MaxPaths of the source paths
RECURSIVE PathLists(_)
PathLists(n) ==
    IF n = 0 THEN { <<>> }
    ELSE PathLists(n - 1)
         \cup { Append(l, p) : l \in { l \in PathLists(n - 1) : Len(l) = n - 1 },
                                p \in {P_a, P_b, P_d, P_ds, P_m, P_u} }
BuildSources == PathLists(MaxPaths)
BuildPasswords == { NoPassword, BytesPw(<<112>>), StrPw(<<112>>) }
InitBuild ==
    /\ CRYPTOGRAPHY_AVAILABLE = TRUE
    /\ PYCRYPTO_AVAILABLE = TRUE
    /\ cr = NoCrypto
    /\ fs = << >>
    /\ th = [t \in Threads |-> Idle]
    /\ nops = 0
    /\ last = NoCall
    /\ now = 0
    /\ bd = NoBuild
    /\ writer = << >>
\* one call of zip_paths_to_file(source_paths, out, password)
BuildZip ==
    /\ bd.op = "none"
    /\ \E source_paths \in BuildSources, password \in BuildPasswords, salt \in Salts :
          bd' = [op |-> "zip", sources |-> source_paths, label |-> <<>>, pw |-> password,
                 salt |-> salt, res |-> ZipPathsToFile(source_paths, password, salt)]
    /\ UNCHANGED <<CRYPTOGRAPHY_AVAILABLE, PYCRYPTO_AVAILABLE, cr, now, store_vars>>
\* one call of save_and_encrypt_backup(source_paths, backup_name, password)
BuildSave ==
    /\ bd.op = "none"
    /\ \E source_paths \in BuildSources, backup_name \in Labels,
          password \in BuildPasswords, salt \in Salts :
          bd' = [op |-> "save", sources |-> source_paths, label |-> backup_name, pw |-> password,
                 salt |-> salt, res |-> SaveResult(source_paths, backup_name, password, salt)]
    /\ UNCHANGED <<CRYPTOGRAPHY_AVAILABLE, PYCRYPTO_AVAILABLE, cr, now, store_vars>>
\* every label of at most MaxLabel characters: letters, digits, the two
\* marks kept, and blank, separator and dot
LabelChars == {"a", "1", "-", "_", " ", "/", "."}
RECURSIVE LabelsUpTo(_)
LabelsUpTo(n) ==
    IF n = 0 THEN { <<>> }
    ELSE LabelsUpTo(n - 1)
         \cup { Append(l, c) : l \in { l \in LabelsUpTo(n - 1) : Len(l) = n - 1 },
                                c \in LabelChars }
BuildLabels == LabelsUpTo(MaxLabel)
\* line 140: safe_name
BuildName ==
    /\ bd.op = "none"
    /\ \E backup_name \in BuildLabels :
          bd' = [NoBuild EXCEPT !.op = "name", !.label = backup_name,
                                !.res = Ok(safe_name_of(backup_name))]
    /\ UNCHANGED <<CRYPTOGRAPHY_AVAILABLE, PYCRYPTO_AVAILABLE, cr, now, store_vars>>
NextBuild ==
    \/ BuildZip
    \/ BuildSave
    \/ BuildName
SpecBuild == InitBuild /\ [][NextBuild]_vars

\* ------------------------------------------------------- service routes
\* werkzeug's secure_filename on ASCII names: separators become blanks,
\* runs of blanks become one "_", characters outside [A-Za-z0-9_.-] are
\* deleted, and dots and underscores are stripped from both ends
ReplaceSep(s) == [i \in 1..Len(s) |-> IF s[i] = "/" THEN " " ELSE s[i]]
RECURSIVE SplitJoin(_)
SplitJoin(s) ==
    IF s = <<>> THEN <<>>
    ELSE IF Head(s) = " "
         THEN IF Len(s) > 1 /\ s[2] = " " THEN SplitJoin(Tail(s))
              ELSE <<"_">> \o SplitJoin(Tail(s))
         ELSE <<Head(s)>> \o SplitJoin(Tail(s))
IsFilenameChar(c) == IsAlnum(c) \/ c \in {"_", ".", "-"}
RECURSIVE StripDots(_)
StripDots(s) ==
    IF s # <<>> /\ Head(s) \in {".", "_"} THEN StripDots(Tail(s))
    ELSE IF s # <<>> /\ s[Len(s)] \in {".", "_"} THEN StripDots(SubSeq(s, 1, Len(s) - 1))
    ELSE s
\* the name used as it was sent
secure_filename_raw(filename) == filename
secure_filename(filename) ==
    StripDots(SelectSeq(SplitJoin(Strip(ReplaceSep(filename))), IsFilenameChar))
\* os.path.join(a, b): b alone when it is absolute
JoinPath(a, b) == IF b # <<>> /\ Head(b) = "/" THEN b ELSE Join(a, b)
\* the components of a path, and the path the operating system resolves it
\* to: empty and "." components dropped, ".." leaving the directory
RECURSIVE Components(_)
Components(s) ==
    IF s = <<>> THEN << <<>> >>
    ELSE LET rest == Components(Tail(s)) IN
         IF Head(s) = "/" THEN << <<>> >> \o rest
         ELSE << <<Head(s)>> \o rest[1] >> \o Tail(rest)
RECURSIVE ResolveFrom(_, _)
ResolveFrom(done, todo) ==
    IF todo = <<>> THEN done
    ELSE LET c == Head(todo) IN
         IF c = <<>> \/ c = <<".">> THEN ResolveFrom(done, Tail(todo))
         ELSE IF c = <<".", ".">>
              THEN ResolveFrom(IF done = <<>> THEN <<>> ELSE SubSeq(done, 1, Len(done) - 1),
                               Tail(todo))
              ELSE ResolveFrom(Append(done, c), Tail(todo))
Resolve(path) ==
    LET cs == ResolveFrom(<<>>, Components(path)) IN
    IF cs = <<>> THEN <<"/">> ELSE Concat([i \in 1..Len(cs) |-> <<"/">> \o cs[i]])
\* the files there are: a backup in the store, and files outside it with the
\* same name, in the temporary directory and at the root
RouteFiles == { Join(BACKUP_STORE, <<"x">>), Join(TMP_DIR, <<"x">>), <<"/", "x">> }
RouteDirs == { <<"/">>, TMP_DIR, BACKUP_STORE }
\* download_backup and restore_route up to the reading of the file: the
\* status answered and the file read, <<>> when none is
RouteResult(backup) ==
    LET path == JoinPath(BACKUP_STORE, secure_filename(backup))
        real == Resolve(path)
    IN IF backup = <<>> THEN [status |-> 400, path |-> <<>>, read |-> <<>>]
       ELSE IF real \notin RouteFiles \cup RouteDirs
            THEN [status |-> 404, path |-> path, read |-> <<>>]
       ELSE IF real \in RouteDirs
            THEN [status |-> 500, path |-> path, read |-> <<>>]
       ELSE [status |-> 200, path |-> path, read |-> real]
\* every requested name of at most MaxName characters
NameChars == {"x", ".", "/", " ", "_"}
RECURSIVE NamesUpTo(_)
NamesUpTo(n) ==
    IF n = 0 THEN { <<>> }
    ELSE NamesUpTo(n - 1)
         \cup { Append(l, c) : l \in { l \in NamesUpTo(n - 1) : Len(l) = n - 1 },
                                c \in NameChars }
RouteNames == NamesUpTo(MaxName)
\* one request to /download or /restore
RouteRequest ==
    /\ bd.op = "none"
    /\ \E backup \in RouteNames, route \in {"download", "restore"} :
          bd' = [NoBuild EXCEPT !.op = route, !.label = backup,
                                !.res = RouteResult(backup)]
    /\ UNCHANGED <<CRYPTOGRAPHY_AVAILABLE, PYCRYPTO_AVAILABLE, cr, now, store_vars>>
NextRoute == RouteRequest
SpecRoute == InitBuild /\ [][NextRoute]_vars

\* ------------------------------------------------------------------- CLI
DESTINATION_PATH == <<"/", "D">>             \* cli.DESTINATION_PATH
\* the folders the user may name: nothing, a directory, a path that is none
F_docs == <<"/", "h", "/", "d">>
F_none == <<"/", "h", "/", "n">>
Folders == {<<>>, F_docs, F_none}
\* the passwords typed: none, ASCII, one outside Latin-1, a lone surrogate
CliPasswords == { <<>>, <<97>>, <<8364>>, <<56448>> }
IsFolder(folder) == folder = F_docs
\* the bytes of the archive shutil.make_archive builds from the folder
FolderZip(folder) == Pattern(AES_BLOCK, 0)
\* the directory tempfile.mkdtemp makes: one that does not exist
CliTmpDir(k) == Join(TMP_DIR, <<"c", Digit(k)>>)
FreshCliTmpDir(f) == CliTmpDir(CHOOSE k \in 0..9 :
                                  /\ CliTmpDir(k) \notin DOMAIN f
                                  /\ \A i \in 0..(k - 1) : CliTmpDir(i) \in DOMAIN f)
Dir == [t |-> "dir"]
IsUnder(path, dir) == Len(path) > Len(dir) /\ SubSeq(path, 1, Len(dir) + 1) = dir \o <<"/">>
\* shutil.rmtree(dir)
Rmtree(f, dir) == [q \in {q \in DOMAIN f : q # dir /\ ~IsUnder(q, dir)} |-> f[q]]
\* the files of the destination directory
DestFiles(f) == { q \in DOMAIN f : IsUnder(q, DESTINATION_PATH) }
\* the destination files a step created, replaced, changed or removed
Touched(f, g) ==
    { q \in DestFiles(f) \cup DestFiles(g) :
         q \notin DOMAIN f \/ q \notin DOMAIN g \/ f[q] # g[q] }
\* <folder_name>_<timestamp> with the extension
OutName(folder, ts) == Basename(folder) \o <<"_", Digit(ts)>> \o Str_zip_enc
\* the unencrypted zip stored under the encrypted name
FallbackName_enc(folder, ts) == OutName(folder, ts)
FallbackName(folder, ts) == Basename(folder) \o <<"_", Digit(ts)>> \o Str_zip

\* Backend B attempted whether or not Backend A produced an envelope
EncryptAttempts_unguarded(zip_bytes, password, salt, iv, failA, failB, ca, pa) ==
    LET a == IF failA THEN Err("Exception") ELSE encrypt_with_cryptography(zip_bytes, password, salt)
        b == IF failB THEN Err("Exception") ELSE encrypt_with_pycrypto(zip_bytes, password, salt, iv)
        t1 == IF ca THEN << [b |-> "A", ok |-> a.ok] >> ELSE <<>>
        enc1 == IF ca /\ a.ok THEN a.val ELSE NoEnvelope
    IN IF pa
       THEN [enc |-> IF b.ok THEN b.val ELSE NoEnvelope,
             method |-> IF b.ok THEN "pycryptodome (AES-CBC, PBKDF2)"
                        ELSE IF ca /\ a.ok THEN "cryptography (Fernet, PBKDF2)" ELSE "none",
             tried |-> t1 \o << [b |-> "B", ok |-> b.ok] >>]
       ELSE [enc |-> enc1,
             method |-> IF ca /\ a.ok THEN "cryptography (Fernet, PBKDF2)" ELSE "none",
             tried |-> t1]

\* the method reported is that of the first backend attempted
EncryptAttempts_first_method(zip_bytes, password, salt, iv, failA, failB, ca, pa) ==
    LET a == IF failA THEN Err("Exception") ELSE encrypt_with_cryptography(zip_bytes, password, salt)
        b == IF failB THEN Err("Exception") ELSE encrypt_with_pycrypto(zip_bytes, password, salt, iv)
        t1 == IF ca THEN << [b |-> "A", ok |-> a.ok] >> ELSE <<>>
    IN IF ca /\ a.ok
       THEN [enc |-> a.val, method |-> "cryptography (Fernet, PBKDF2)", tried |-> t1]
       ELSE IF pa
            THEN [enc |-> IF b.ok THEN b.val ELSE NoEnvelope,
                  method |-> IF ~b.ok THEN "none"
                             ELSE IF ca THEN "cryptography (Fernet, PBKDF2)"
                             ELSE "pycryptodome (AES-CBC, PBKDF2)",
                  tried |-> t1 \o << [b |-> "B", ok |-> b.ok] >>]
            ELSE [enc |-> NoEnvelope, method |-> "none", tried |-> t1]

\* perform_encrypt_and_backup, lines 147-161: the envelope, the method and
\* the attempts made, in order.  failA and failB say whether the backend's
\* call raises for a reason other than the password's encoding.
EncryptAttempts(zip_bytes, password, salt, iv, failA, failB, ca, pa) ==
    LET a == IF failA THEN Err("Exception") ELSE encrypt_with_cryptography(zip_bytes, password, salt)
        b == IF failB THEN Err("Exception") ELSE encrypt_with_pycrypto(zip_bytes, password, salt, iv)
        t1 == IF ca THEN << [b |-> "A", ok |-> a.ok] >> ELSE <<>>
    IN IF ca /\ a.ok
       THEN [enc |-> a.val, method |-> "cryptography (Fernet, PBKDF2)", tried |-> t1]
       ELSE IF pa
            THEN [enc |-> IF b.ok THEN b.val ELSE NoEnvelope,
                  method |-> IF b.ok THEN "pycryptodome (AES-CBC, PBKDF2)" ELSE "none",
                  tried |-> t1 \o << [b |-> "B", ok |-> b.ok] >>]
            ELSE [enc |-> NoEnvelope, method |-> "none", tried |-> t1]

\* the CLI call of thread t returns, having printed msg
CliReturn(t, ok, msg, warned) ==
    /\ th' = [th EXCEPT ![t] = Idle]
    /\ last' = [op |-> "cli_backup", path |-> th[t].stored, pw |-> th[t].pw,
                ok |-> ok, err |-> msg, out |-> <<>>, src |-> th[t].label,
                method |-> th[t].method, tried |-> th[t].tried, warned |-> warned]

\* lines 126-145: the folder and the password are asked for; the folder is
\* zipped into a fresh temporary directory and the zip is read
CliStart(t) ==
    /\ th[t].pc = "idle" /\ nops < MaxCliOps
    /\ nops' = nops + 1
    /\ \E folder \in Folders, password \in CliPasswords :
          IF ~IsFolder(folder) \/ password = <<>>
          THEN /\ th' = th
               /\ last' = [NoCall EXCEPT !.op = "cli_backup", !.pw = password, !.src = folder,
                              !.err = IF folder = <<>> THEN "No folder entered."
                                      ELSE IF ~IsFolder(folder) THEN "Folder does not exist."
                                      ELSE "No password entered; aborting."]
               /\ UNCHANGED fs
          ELSE LET temp_dir == FreshCliTmpDir(fs)
                   zip_path == Join(temp_dir, <<"a">> \o Str_zip)
               IN /\ fs' = fs @@ (temp_dir :> File(Dir, {}))
                               @@ (zip_path :> File(Raw(FolderZip(folder)), {}))
                  /\ th' = [th EXCEPT ![t] =
                         [Idle EXCEPT !.pc = "c_encrypt", !.kind = "cli_backup",
                                      !.label = folder, !.pw = password,
                                      !.out = temp_dir, !.zip_path = zip_path,
                                      !.data = Raw(FolderZip(folder))]]
                  /\ UNCHANGED last
    /\ UNCHANGED <<writer, crypto_vars>>

\* lines 147-167: Backend A, then Backend B; the time stamp and the names
CliEncrypt(t) ==
    /\ th[t].pc = "c_encrypt"
    /\ \E salt \in Salts, iv \in Salts, failA \in BOOLEAN, failB \in BOOLEAN :
          LET r == EncryptAttempts(th[t].data.bytes, th[t].pw, salt, iv, failA, failB,
                                   CRYPTOGRAPHY_AVAILABLE, PYCRYPTO_AVAILABLE)
          IN th' = [th EXCEPT ![t].enc = r.enc, ![t].method = r.method, ![t].tried = r.tried,
                              ![t].stored = Join(DESTINATION_PATH, OutName(th[t].label, now)),
                              ![t].safe = FallbackName(th[t].label, now),
                              ![t].pc = IF r.enc # NoEnvelope THEN "c_open_out" ELSE "c_move"]
    /\ UNCHANGED <<fs, nops, last, writer, crypto_vars>>

\* line 170: open(out_path, 'wb')
CliOpenOut(t) ==
    /\ th[t].pc = "c_open_out"
    /\ fs' = OpenW(fs, th[t].stored, <<t, "s">>)
    /\ th' = [th EXCEPT ![t].pc = "c_write_out"]
    /\ UNCHANGED <<nops, last, writer, crypto_vars>>

\* lines 171-173: the envelope is written
CliWriteOut(t) ==
    /\ th[t].pc = "c_write_out"
    /\ \E mixed \in BOOLEAN : fs' = WriteTo(fs, <<t, "s">>, Envelope(th[t].enc), mixed)
    /\ th' = [th EXCEPT ![t].pc = "c_finally"]
    /\ UNCHANGED <<nops, last, writer, crypto_vars>>

\* lines 175-180: no envelope, the zip is moved to the destination and the
\* warning is printed
CliMove(t) ==
    /\ th[t].pc = "c_move"
    /\ LET fallback_path == Join(DESTINATION_PATH, th[t].safe) IN
       /\ fs' = Rename(fs, th[t].zip_path, fallback_path)
       /\ th' = [th EXCEPT ![t].pc = "c_finally_warned", ![t].stored = fallback_path]
    /\ UNCHANGED <<nops, last, writer, crypto_vars>>

\* lines 182-187: finally, the temporary directory is removed
CliFinally(t) ==
    /\ th[t].pc \in {"c_finally", "c_finally_warned"}
    /\ fs' = Rmtree(fs, th[t].out)
    /\ CliReturn(t, TRUE, "none", th[t].pc = "c_finally_warned")
    /\ UNCHANGED <<nops, writer, crypto_vars>>

\* time passes
Tick ==
    /\ now < MaxTime
    /\ now' = now + 1
    /\ UNCHANGED <<CRYPTOGRAPHY_AVAILABLE, PYCRYPTO_AVAILABLE, cr, bd, store_vars>>

InitCli ==
    /\ CRYPTOGRAPHY_AVAILABLE \in BOOLEAN
    /\ PYCRYPTO_AVAILABLE \in BOOLEAN
    /\ cr = NoCrypto
    /\ InitStore

\* the command line: one call at a time
NextCli ==
    \/ CliStart(1)
    \/ CliEncrypt(1)
    \/ CliOpenOut(1)
    \/ CliWriteOut(1)
    \/ CliMove(1)
    \/ CliFinally(1)
    \/ Tick
SpecCli == InitCli /\ [][NextCli]_vars

\* ------------------------------------------------------- CLI: restore
\* the files of the folder that was backed up, by name: what the zip holds
FolderFiles(folder) == (<<"n">> \o Str_zip) :> Raw(<<110>>)
\* list_archives_in_destination: the names ending in .zip.enc or .zip; the
\* number typed picks any one of them
ListedArchives(f) ==
    { q \in DestFiles(f) : EndsWith(q, Str_zip_enc) \/ EndsWith(q, Str_zip) }
\* the passwords typed at restore: none, the right ones, a wrong one, one no
\* backend can encode
CliRestorePasswords == { <<>>, <<97>>, <<98>>, <<8364>>, <<56448>> }
\* the folders typed as the place to extract to: another folder, the
\* destination directory itself
X_out == <<"/", "h", "/", "o">>
ExtractDests == { X_out, DESTINATION_PATH }
Str_restored == <<"r", "e", "s", "t", "o", "r", "e", "d">> \o Str_zip
\* try_decrypt on the bytes read from a file; bytes that are no envelope make
\* every backend raise
try_decrypt_file(blob, password, d, ca, pa) ==
    IF blob.t = "env" THEN try_decrypt(blob.env, password, d, ca, pa)
    ELSE [res |-> Err("ValueError: decryption failed"),
          tried |-> (IF ca THEN <<"A">> ELSE <<>>) \o (IF pa THEN <<"B">> ELSE <<>>)]
\* os.makedirs(dest, exist_ok=True)
Makedirs(f, dest) ==
    IF dest = DESTINATION_PATH \/ dest \in DOMAIN f THEN f ELSE f @@ (dest :> File(Dir, {}))
\* shutil.unpack_archive(zip, dest): every file of the zip written under dest,
\* replacing a file of the same name
Unpack(f, files, dest) ==
    LET new == { Join(dest, n) : n \in DOMAIN files } IN
    [q \in DOMAIN f \cup new |->
        IF q \in new
        THEN File(files[CHOOSE n \in DOMAIN files : Join(dest, n) = q], {})
        ELSE f[q]]
\* the zip held by a file: the backed-up folder's files, or no zip at all
IsFolderZip(blob) == blob.t = "raw" /\ blob.bytes = FolderZip(F_docs)

\* lines 251-265: the archives are listed, one is picked, the temporary
\* directory is made
CliRestoreStart(t) ==
    /\ th[t].pc = "idle" /\ nops < MaxCliOps
    /\ nops' = nops + 1
    /\ \E choice_path \in ListedArchives(fs) \cup { <<>> } :
          IF choice_path = <<>>
          THEN /\ th' = th
               /\ last' = [NoCall EXCEPT !.op = "cli_restore",
                              !.err = IF ListedArchives(fs) = {}
                                      THEN "No archives found in destination."
                                      ELSE "Invalid selection."]
               /\ UNCHANGED fs
          ELSE LET temp_dir == FreshCliTmpDir(fs) IN
               /\ fs' = fs @@ (temp_dir :> File(Dir, {}))
               /\ th' = [th EXCEPT ![t] =
                      [Idle EXCEPT !.pc = IF EndsWith(choice_path, Str_zip_enc)
                                          THEN "cr_decrypt" ELSE "cr_unpack",
                                   !.kind = "cli_restore", !.stored = choice_path,
                                   !.out = temp_dir, !.zip_path = choice_path]]
               /\ UNCHANGED last
    /\ UNCHANGED <<writer, crypto_vars>>

\* lines 267-282: the password is asked for, the file is read, try_decrypt is
\* called and the zip is written to restored.zip in the temporary directory
CliRestoreDecrypt(t) ==
    /\ th[t].pc = "cr_decrypt"
    /\ \E password \in CliRestorePasswords, d \in Shifts :
          IF password = <<>>
          THEN /\ th' = [th EXCEPT ![t].pc = "cr_finally_abort"]
               /\ UNCHANGED fs
          ELSE IF th[t].stored \notin DOMAIN fs
          THEN /\ th' = [th EXCEPT ![t].pc = "cr_finally_raised", ![t].pw = password]
               /\ UNCHANGED fs
          ELSE LET r == try_decrypt_file(fs[th[t].stored].blob, password, d,
                                         CRYPTOGRAPHY_AVAILABLE, PYCRYPTO_AVAILABLE)
                   temp_zip_path == Join(th[t].out, Str_restored)
               IN IF r.res.ok
                  THEN /\ fs' = fs @@ (temp_zip_path :> File(Raw(r.res.val), {}))
                       /\ th' = [th EXCEPT ![t].pc = "cr_unpack", ![t].pw = password,
                                           ![t].tried = r.tried,
                                           ![t].zip_path = temp_zip_path]
                  ELSE /\ th' = [th EXCEPT ![t].pc = "cr_finally_failed",
                                           ![t].pw = password, ![t].tried = r.tried]
                       /\ UNCHANGED fs
    /\ UNCHANGED <<nops, last, writer, crypto_vars>>

\* lines 287-292: the place to extract to is asked for and made, and the zip
\* is unpacked into it
CliRestoreUnpack(t) ==
    /\ th[t].pc = "cr_unpack"
    /\ \E dest \in ExtractDests :
          IF th[t].zip_path \in DOMAIN fs /\ IsFolderZip(fs[th[t].zip_path].blob)
          THEN /\ fs' = Unpack(Makedirs(fs, dest), FolderFiles(F_docs), dest)
               /\ th' = [th EXCEPT ![t].pc = "cr_finally_done", ![t].label = dest]
          ELSE /\ fs' = Makedirs(fs, dest)
               /\ th' = [th EXCEPT ![t].pc = "cr_finally_raised", ![t].label = dest]
    /\ UNCHANGED <<nops, last, writer, crypto_vars>>

\* lines 293-297: finally, the temporary directory is removed
CliRestoreFinally(t) ==
    /\ th[t].pc \in {"cr_finally_abort", "cr_finally_failed", "cr_finally_raised",
                     "cr_finally_done"}
    /\ fs' = Rmtree(fs, th[t].out)
    /\ th' = [th EXCEPT ![t] = Idle]
    /\ last' = [op |-> "cli_restore", path |-> th[t].stored, pw |-> th[t].pw,
                ok |-> th[t].pc = "cr_finally_done",
                err |-> IF th[t].pc = "cr_finally_abort" THEN "No password entered; aborting."
                        ELSE IF th[t].pc = "cr_finally_failed" THEN "Decryption failed"
                        ELSE IF th[t].pc = "cr_finally_raised" THEN "ReadError"
                        ELSE "none",
                out |-> th[t].label, src |-> <<>>, method |-> "none",
                tried |-> th[t].tried, warned |-> FALSE]
    /\ UNCHANGED <<nops, writer, crypto_vars>>

\* What the destination directory can hold when a restore is asked for:
\* nothing; the envelope a backup wrote with Backend A or with Backend B; the
\* plain zip a backup moved there; both.
CliEnvelopes ==
    { encrypt_with_cryptography(FolderZip(F_docs), pw, salt).val :
         pw \in { <<97>>, <<8364>> }, salt \in Salts }
    \cup { encrypt_with_pycrypto(FolderZip(F_docs), <<97>>, salt, iv).val :
              salt \in Salts, iv \in Salts }
CliStoreStates ==
    LET enc_path == Join(DESTINATION_PATH, OutName(F_docs, 0))
        zip_path == Join(DESTINATION_PATH, FallbackName(F_docs, 0))
        plain == zip_path :> File(Raw(FolderZip(F_docs)), {})
    IN { << >>, plain }
       \cup { enc_path :> File(Envelope(e), {}) : e \in CliEnvelopes }
       \cup { (enc_path :> File(Envelope(e), {})) @@ plain : e \in CliEnvelopes }
InitCliRestore ==
    /\ CRYPTOGRAPHY_AVAILABLE \in BOOLEAN
    /\ PYCRYPTO_AVAILABLE \in BOOLEAN
    /\ cr = NoCrypto
    /\ fs \in CliStoreStates
    /\ th = [t \in Threads |-> Idle]
    /\ nops = 0
    /\ last = NoCall
    /\ now = 0
    /\ bd = NoBuild
    /\ writer = << >>
NextCliRestore ==
    \/ CliRestoreStart(1)
    \/ CliRestoreDecrypt(1)
    \/ CliRestoreUnpack(1)
    \/ CliRestoreFinally(1)
SpecCliRestore == InitCliRestore /\ [][NextCliRestore]_vars

\* ------------------------------------------------- claims: pure functions
\* C2: decrypting with P the envelope made by encrypting C with P returns
\* exactly C, for Backend A and for Backend B, each with its own decrypt.
C2_RoundTrip ==
    (cr.via = cr.by /\ cr.via \in {"A", "B"} /\ cr.dpw = cr.pw)
        => (cr.dec.ok /\ cr.dec.val = cr.data)
\* a block-aligned container went through Backend B and came back
C2_Witness ==
    /\ cr.by = "B" /\ cr.via = "B" /\ cr.dpw = cr.pw
    /\ Len(cr.data) = AES_BLOCK
    /\ cr.dec.ok /\ cr.dec.val = cr.data

\* C5: try_decrypt tries Backend A first and Backend B second, returns the
\* result of the first that succeeds, and fails only after every available
\* backend has been tried and has failed.
C5_TrialOrder ==
    cr.via = "try" =>
        LET a == decrypt_with_cryptography(cr.env, cr.dpw)
            b == decrypt_with_pycrypto(cr.env, cr.dpw, cr.d)
            useA == CRYPTOGRAPHY_AVAILABLE /\ a.ok
            useB == ~useA /\ PYCRYPTO_AVAILABLE /\ b.ok
            avail == (IF CRYPTOGRAPHY_AVAILABLE THEN <<"A">> ELSE <<>>)
                     \o (IF PYCRYPTO_AVAILABLE THEN <<"B">> ELSE <<>>)
        IN /\ useA => (cr.dec = a /\ cr.tried = <<"A">>)
           /\ useB => (cr.dec = b /\ cr.tried = avail)
           /\ cr.dec.ok => (useA \/ useB)
           /\ ~cr.dec.ok => (cr.tried = avail /\ cr.dec.err = "ValueError: decryption failed")
\* Backend A was tried and failed, then Backend B returned the container
C5_Witness ==
    /\ cr.via = "try" /\ cr.by = "B" /\ cr.dpw = cr.pw
    /\ cr.tried = <<"A", "B">>
    /\ cr.dec.ok /\ cr.dec.val = cr.data

\* C6 as stated: a Backend A envelope made with P1 never decrypts with any
\* other password P2, neither by Backend A nor through try_decrypt.
C6_AnyOtherPassword ==
    (cr.by = "A" /\ cr.via \in {"A", "try"} /\ cr.dpw # cr.pw) => ~cr.dec.ok
\* P1 and P2 reach PBKDF2-HMAC as the same HMAC key
SameDerivedKey(p1, p2) ==
    /\ Utf8(p1).ok /\ Utf8(p2).ok
    /\ HmacKey(Utf8(p1).val) = HmacKey(Utf8(p2).val)
\* C6 amended: a Backend A envelope made with P1 never decrypts with a
\* password P2 that derives another key, neither by Backend A nor through
\* try_decrypt with Backend B as second trial.
C6_WrongKeyRejected ==
    (cr.by = "A" /\ cr.via \in {"A", "try"} /\ ~SameDerivedKey(cr.pw, cr.dpw))
        => ~cr.dec.ok
\* the dispatcher tried both backends on a Backend A envelope and failed
C6_Witness ==
    /\ cr.by = "A" /\ cr.via = "try" /\ cr.tried = <<"A", "B">>
    /\ cr.pw = <<97>> /\ cr.dpw = <<98>>
    /\ ~cr.dec.ok

\* ---------------------------------------------- claims: the command line
\* C3: on encryption Backend A is attempted first and Backend B only when
\* Backend A is unavailable or its attempt failed; when Backend A produced an
\* envelope, that envelope and no other is the one written.
C3_BackendOrder ==
    \A t \in Threads :
        (th[t].kind = "cli_backup" /\ th[t].pc # "c_encrypt") =>
            LET tr == th[t].tried
                aOk == \E i \in DOMAIN tr : tr[i].b = "A" /\ tr[i].ok
            IN /\ CRYPTOGRAPHY_AVAILABLE => (tr # <<>> /\ tr[1].b = "A")
               /\ \A i \in DOMAIN tr :
                     tr[i].b = "B" =>
                        \/ i = 1 /\ ~CRYPTOGRAPHY_AVAILABLE
                        \/ i = 2 /\ tr[1] = [b |-> "A", ok |-> FALSE]
               /\ aOk => (th[t].enc.fmt = "token" /\ th[t].method = "cryptography (Fernet, PBKDF2)")
               /\ th[t].enc.fmt = "block" => ~aOk
               /\ th[t].pc = "c_finally" => fs[th[t].stored].blob = Envelope(th[t].enc)
\* Backend A's attempt failed and Backend B's envelope was written
C3_Witness ==
    /\ th[1].pc = "c_finally"
    /\ th[1].tried = << [b |-> "A", ok |-> FALSE], [b |-> "B", ok |-> TRUE] >>
    /\ fs[th[1].stored].blob.t = "env"
    /\ fs[th[1].stored].blob.env.fmt = "block"

\* C4: when no backend produces an envelope the backup still completes: the
\* plain container is stored under a name ending in .zip, never under
\* .zip.enc, and the no-encryption warning is printed.
C4_PlainFallback ==
    /\ \A t \in Threads :
          (th[t].kind = "cli_backup" /\ th[t].pc # "c_encrypt" /\ th[t].enc = NoEnvelope)
              => th[t].pc \in {"c_move", "c_finally_warned"}
    /\ (th[1].pc = "idle" /\ last.op = "cli_backup" /\ last.ok /\ last.method = "none") =>
          /\ last.warned
          /\ EndsWith(last.path, Str_zip) /\ ~EndsWith(last.path, Str_zip_enc)
          /\ last.path \in DOMAIN fs
          /\ fs[last.path].blob = Raw(FolderZip(last.src))
    /\ \A q \in DOMAIN fs : EndsWith(q, Str_zip_enc) => fs[q].blob.t # "raw"
\* both backends were attempted, both failed, and the call returned
C4_Witness ==
    /\ th[1].pc = "idle" /\ last.op = "cli_backup" /\ last.ok
    /\ last.tried = << [b |-> "A", ok |-> FALSE], [b |-> "B", ok |-> FALSE] >>
    /\ last.warned
    /\ last.path \in DOMAIN fs /\ fs[last.path].blob.t = "raw"

\* ------------------------------------------------- claims: the API helpers
\* C1: a backup saved with a non-empty password and then restored from the
\* returned stored path with the same password yields exactly the plain
\* container zip_paths_to_file built from the sources.
C1_SaveRestore ==
    (/\ th[1].pc = "idle" /\ last.op = "restore"
     /\ last.path \in DOMAIN writer
     /\ writer[last.path].pw # <<>>
     /\ last.pw = writer[last.path].pw)
        => /\ last.ok
           /\ last.out \in DOMAIN fs
           /\ fs[last.out].blob = zip_paths_to_file(writer[last.path].sources).val
\* a directory and a file were saved under a password and restored with it
C1_Witness ==
    /\ th[1].pc = "idle" /\ last.op = "restore" /\ last.ok
    /\ last.path \in DOMAIN writer
    /\ writer[last.path].pw = <<112>> /\ last.pw = <<112>>
    /\ writer[last.path].sources = <<P_d, P_m, P_b>>
    /\ fs[last.out].blob.t = "zip"
    /\ Len(fs[last.out].blob.entries) > 1

\* C7: two backups persisted one after the other under the same label get
\* two distinct stored names: no stored path is returned by two saves.
C7_DistinctNames ==
    \A q \in DOMAIN writer : writer[q].count <= 1

\* C8: two concurrent saves never write to the same stored path: no stored
\* archive is open for writing by two calls at once.
C8_AtomicCreate ==
    \A q \in DOMAIN fs :
        \A h1 \in fs[q].open, h2 \in fs[q].open :
            (h1[2] = "s" /\ h2[2] = "s") => h1 = h2

\* C9: the intermediate plain container of a save is exclusive to the call:
\* two saves in progress never use the same temporary file.
C9_ExclusiveTemp ==
    \A t1 \in Threads, t2 \in Threads :
        (t1 # t2 /\ th[t1].kind = "save" /\ th[t2].kind = "save")
            => th[t1].zip_path # th[t2].zip_path

\* C10: when a call has returned or raised, the temporary zip of a save is
\* gone and so is the temporary output file of a restore that failed.
C10_TempRemoved ==
    th[1].pc = "idle" =>
        /\ \A l \in Labels : TmpZipPath(safe_name_of(l)) \notin DOMAIN fs
        /\ (last.op = "restore" /\ ~last.ok /\ last.out # <<>>) => last.out \notin DOMAIN fs

\* C11: while a save is writing its output, and so whenever it is
\* interrupted, its partial content is not at the final target name in the
\* store: the call holds no file open for writing under that name.
C11_NoPartialAtTarget ==
    \A t \in Threads :
        (th[t].kind = "save" /\ th[t].stored # <<>> /\ th[t].stored \in DOMAIN fs)
            => <<t, "s">> \notin fs[th[t].stored].open

\* C12: restoring a stored backup whose name ends in .zip and not in
\* .enc.zip returns a file with exactly the content of the stored file,
\* whatever the password argument.
C12_PlainPassthrough ==
    (/\ th[1].pc = "idle" /\ last.op = "restore"
     /\ EndsWith(last.path, Str_zip) /\ ~EndsWith(last.path, Str_enc_zip)
     /\ last.path \in DOMAIN fs)
        => /\ last.ok
           /\ last.out \in DOMAIN fs
           /\ fs[last.out].blob = fs[last.path].blob
\* a plain backup with entries was restored with a password given
C12_Witness ==
    /\ th[1].pc = "idle" /\ last.op = "restore" /\ last.ok
    /\ EndsWith(last.path, Str_zip) /\ ~EndsWith(last.path, Str_enc_zip)
    /\ last.pw = <<113>>
    /\ fs[last.out].blob.t = "zip"
    /\ fs[last.out].blob.entries # <<>>
    /\ fs[last.out].blob = fs[last.path].blob

\* C13: a restore raises the not-found error when the stored archive does
\* not exist, the empty-archive error when the wrapper has no entry, and a
\* password error when the password is not the one the entry was encrypted
\* with; in each case nothing is returned and nothing was written to the
\* output file.
C13_RestoreErrors ==
    (th[1].pc = "idle" /\ last.op = "restore") =>
        LET here == last.path \in DOMAIN fs
            wrapper == here /\ ~(EndsWith(last.path, Str_zip) /\ ~EndsWith(last.path, Str_enc_zip))
                            /\ fs[last.path].blob.t = "zip"
            entries == fs[last.path].blob.entries
        IN /\ ~here => (~last.ok /\ last.err = "FileNotFoundError" /\ last.out = <<>>)
           /\ (wrapper /\ entries = <<>>)
                 => (~last.ok /\ last.err = "RuntimeError: encrypted archive empty")
           /\ (wrapper /\ entries # <<>> /\ entries[1].aes # NoKey /\ last.pw # <<>>
                       /\ AesZipKey(last.pw, entries[1].aes.salt) # entries[1].aes)
                 => (~last.ok /\ last.err = "RuntimeError: Bad password")
           /\ (wrapper /\ entries # <<>> /\ entries[1].aes # NoKey /\ last.pw = <<>>)
                 => (~last.ok /\ last.err = "RuntimeError: password required")
           /\ (~last.ok /\ last.out # <<>>) => fs[last.out].blob = Empty
\* an empty wrapper was restored with a password and the call raised
C13_Witness ==
    /\ th[1].pc = "idle" /\ last.op = "restore" /\ ~last.ok
    /\ last.path \in DOMAIN fs /\ fs[last.path].blob = Zip(<<>>)
    /\ last.pw = <<112>>
    /\ last.err = "RuntimeError: encrypted archive empty"

C15_SafeName ==
    bd.op = "name" =>
        LET Kept(c) == IsAlnum(c) \/ c = "-" \/ c = "_"
            kept == SelectSeq(bd.label, Kept)
            name == bd.res.val
        IN /\ bd.res.ok
           /\ name = IF kept = <<>> THEN <<"b", "a", "c", "k", "u", "p">> ELSE kept
           /\ \A i \in 1..Len(name) : Kept(name[i])
\* a label of separator, dot and blank became "backup"
C15_Witness ==
    /\ bd.op = "name" /\ bd.label = <<"/", ".", " ">>
    /\ bd.res.val = <<"b", "a", "c", "k", "u", "p">>

\* C16: for every requested name, the path fetch and restore read from
\* resolves to the store directory or to a path inside it; a file is read
\* only when it is inside the store, and every other request is refused.
C16_InsideStore ==
    bd.op \in {"download", "restore"} =>
        /\ bd.res.path # <<>> =>
              \/ Resolve(bd.res.path) = BACKUP_STORE
              \/ IsUnder(Resolve(bd.res.path), BACKUP_STORE)
        /\ bd.res.read # <<>> => IsUnder(bd.res.read, BACKUP_STORE)
        /\ bd.res.read = <<>> => bd.res.status \in {400, 404, 500}
\* the name ../x was asked for and the backup x inside the store was read
C16_Witness ==
    /\ bd.op = "restore" /\ bd.label = <<".", ".", "/", "x">>
    /\ bd.res.status = 200
    /\ bd.res.read = Join(BACKUP_STORE, <<"x">>)

\* C17: Backend B appends 16 - (n mod 16) bytes, each equal to that number,
\* to a container of n bytes (a whole block when n is a multiple of 16), so
\* the padded length is a positive multiple of 16, and decrypting with the
\* password of the encryption strips exactly the bytes appended.
C17_Padding ==
    cr.by = "B" =>
        LET n == Len(cr.data)
            pad == 16 - (n % 16)
            padded == cr.env.pt
        IN /\ Len(padded) = n + pad
           /\ Len(padded) > 0 /\ Len(padded) % 16 = 0
           /\ (n % 16 = 0) => Len(padded) = n + 16
           /\ SubSeq(padded, 1, n) = cr.data
           /\ \A i \in (n + 1)..Len(padded) : padded[i] = pad
           /\ (cr.via = "B" /\ cr.dpw = cr.pw) => (cr.dec.ok /\ cr.dec.val = cr.data)
\* a container of one whole block gained a block of sixteen 16s, which the
\* decryption stripped
C17_Witness ==
    /\ cr.by = "B" /\ cr.via = "B" /\ cr.dpw = cr.pw
    /\ Len(cr.data) = 16 /\ Len(cr.env.pt) = 32
    /\ cr.env.pt[32] = 16
    /\ cr.dec.ok /\ cr.dec.val = cr.data

\* C18: Backend B's decrypt fails with the padding error when the last
\* decrypted byte is outside 1..16 and when the envelope holds no ciphertext
\* block, and otherwise returns the decrypted data without that many
\* trailing bytes.
C18_PadCheck ==
    (cr.via = "B" /\ cr.by \in {"B", "Bcut"} /\ Latin1(cr.dpw).ok) =>
        LET n == BLen(cr.env) - (SALT_LEN + AES_BLOCK)
            key == Pbkdf2(Latin1(cr.dpw).val, cr.env.salt, "SHA1", KDF_ITERATIONS, KDF_LENGTH)
            padded == CbcDecrypt(cr.env, key, n, cr.d)
        IN IF n < AES_BLOCK
           THEN ~cr.dec.ok /\ cr.dec.err = "ValueError: bad padding"
           ELSE LET last_byte == padded[Len(padded)] IN
                IF last_byte < 1 \/ last_byte > 16
                THEN ~cr.dec.ok /\ cr.dec.err = "ValueError: bad padding"
                ELSE /\ cr.dec.ok
                     /\ cr.dec.val = SubSeq(padded, 1, Len(padded) - last_byte)

\* C19: the archive has, for each listed path in list order, one entry
\* named by the base filename for a regular file, one entry per contained
\* directory and file named relative to the parent of the listed directory
\* for a directory (as os.walk lists them), and nothing for a path that is
\* neither, which raises no error (readable sources, no password or a bytes
\* password).
C19_BuilderEntries ==
    (/\ bd.op = "zip"
     /\ bd.pw \in {NoPassword, BytesPw(<<112>>)}
     /\ \A i \in 1..Len(bd.sources) : bd.sources[i] # P_u) =>
        LET parent == <<"/", "u">>
            inside == << <<"d", "/", "s", "/">>, <<"d", "/", "f">>, <<"d", "/", "s", "/", "g">> >>
            Expected(p) == IF p \in {P_a, P_b} THEN << <<"a">> >>
                           ELSE IF p \in {P_d, P_ds} THEN inside
                           ELSE <<>>
            names == [k \in 1..Len(bd.res.val.entries) |-> bd.res.val.entries[k].name]
        IN /\ Dirname(P_d) = parent
           /\ bd.res.ok
           /\ names = Concat([i \in 1..Len(bd.sources) |-> Expected(bd.sources[i])])

\* C20: every envelope's key is derived with SHA-256, 390000 iterations and
\* a 32-byte output whichever backend wrote it, and a backend decrypting its
\* own envelope with the encrypting password derives the same key and
\* succeeds.
C20_FixedKdf ==
    /\ cr.by \in {"A", "B"} =>
           LET key == IF cr.env.fmt = "token" THEN cr.env.key.b64 ELSE cr.env.key
           IN /\ key.hash = "SHA256"
              /\ key.it = 390000
              /\ key.len = 32
    /\ (cr.by = "A" /\ cr.via = "A" /\ cr.dpw = cr.pw) => cr.dec.ok
    /\ (cr.by = "B" /\ cr.via = "B" /\ cr.dpw = cr.pw) => cr.dec.ok

\* ------------------------------------- claims: the command line, one call
\* C23: one call of the CLI backup writes at most one file of the destination
\* directory: none when the folder is missing or the password is empty (the
\* call ends in its first step), otherwise exactly one, the .zip.enc envelope
\* if and only if a backend produced one and the plain .zip otherwise; the
\* method reported is that of the backend whose envelope was written.
C23_OneOutputFile ==
    [][ LET pc == th[1].pc
            target == IF th[1].enc # NoEnvelope THEN th[1].stored
                      ELSE Join(DESTINATION_PATH, th[1].safe)
        IN /\ pc \in {"idle", "c_encrypt", "c_finally", "c_finally_warned"}
                 => Touched(fs, fs') = {}
           /\ pc \in {"c_open_out", "c_write_out"}
                 => th[1].enc # NoEnvelope /\ Touched(fs, fs') \subseteq {target}
           /\ pc = "c_move"
                 => th[1].enc = NoEnvelope /\ Touched(fs, fs') \subseteq {target}
           /\ (pc = "idle" /\ th'[1].pc = "idle" /\ nops' # nops)
                 => (~IsFolder(last'.src) \/ last'.pw = <<>>) /\ ~last'.ok
           /\ (pc = "idle" /\ th'[1].pc = "c_encrypt")
                 => IsFolder(th'[1].label) /\ th'[1].pw # <<>>
           /\ (pc \in {"c_finally", "c_finally_warned"} /\ th'[1].pc = "idle")
                 => /\ last'.path = target
                    /\ target \in DestFiles(fs')
                    /\ EndsWith(target, Str_zip_enc) <=> th[1].enc # NoEnvelope
                    /\ th[1].enc # NoEnvelope =>
                          /\ fs'[target].blob = Envelope(th[1].enc)
                          /\ last'.method = "cryptography (Fernet, PBKDF2)"
                                <=> th[1].enc.fmt = "token"
                          /\ last'.method = "pycryptodome (AES-CBC, PBKDF2)"
                                <=> th[1].enc.fmt = "block"
                    /\ th[1].enc = NoEnvelope =>
                          /\ EndsWith(target, Str_zip)
                          /\ fs'[target].blob = Raw(FolderZip(th[1].label))
                          /\ last'.method = "none"
      ]_vars
\* a call returned after Backend A failed and Backend B's envelope was written
\* to the destination
C23_Witness ==
    /\ th[1].pc = "idle" /\ last.op = "cli_backup" /\ last.ok
    /\ last.method = "pycryptodome (AES-CBC, PBKDF2)"
    /\ last.path \in DestFiles(fs)
    /\ fs[last.path].blob.t = "env"
    /\ fs[last.path].blob.env.fmt = "block"
    /\ last.tried # <<>> /\ last.tried[1].b = "A"

\* ------------------------------------------------- claims: restoring
\* C22: no step of a CLI restore, whether the restore succeeds or fails,
\* creates, changes, replaces or removes a file of the destination directory.
C22_StoreUnchanged ==
    [][ th[1].kind = "cli_restore" => Touched(fs, fs') = {} ]_vars

\* C21: an API restore of a stored backup whose name ends in .enc.zip returns
\* no container without a password, and a container it returns is what the
\* dispatcher's decrypt (Backend A, then Backend B) yields from the bytes of
\* the wrapper's single entry taken as the envelope.
C21_DispatcherDecrypt ==
    (last.op = "restore" /\ EndsWith(last.path, Str_enc_zip)) =>
        /\ last.pw = <<>> => ~last.ok
        /\ last.ok =>
              /\ last.path \in DOMAIN fs /\ last.out \in DOMAIN fs
              /\ fs[last.path].blob.t = "zip"
              /\ Len(fs[last.path].blob.entries) = 1
              /\ \E d \in Shifts :
                    LET r == try_decrypt_file(fs[last.path].blob.entries[1].data, last.pw, d,
                                              CRYPTOGRAPHY_AVAILABLE, PYCRYPTO_AVAILABLE)
                    IN r.res.ok /\ r.tried # <<>> /\ fs[last.out].blob = Raw(r.res.val)

====
